---- MODULE Spec2Model ----
(***************************************************************************)
(* wgltf: a glTF viewer on wgpu/winit.  The model covers the format        *)
(* translator (src/utils/mod.rs), the scene compiler and the frame         *)
(* renderer (src/state.rs) and the fixed-timestep event loop (src/main.rs).*)
(*                                                                         *)
(* Time is counted in whole quanta: one fixed step is StepUnits quanta, so *)
(* the f64 arithmetic of the loop is modelled exactly (no rounding).       *)
(***************************************************************************)
EXTENDS Integers, Sequences, FiniteSets, TLC

VARIABLES
    pc,               \* position of the program: translate/translated, new, running, failed, exited
    accessor,         \* argument of the format translator call under test
    format,           \* what accessor_type_to_format returned for it
    computed_stride,  \* what stride_of_component_type returned for it
    index_format,     \* what component_type_to_index_format returned for its component type
    scene,            \* GltfScene: the imported document
    window_size,      \* window.inner_size() at startup
    node_data,        \* State.node_data: node index -> bind group
    primitive_data,   \* State.primitive_data: <<mesh, primitive>> -> GpuPrimitive
    surface_config,   \* State.surface_config (width, height)
    surface,          \* what State.surface was last configured to
    depth_texture,    \* State.depth_texture: its extent
    camera,           \* State.camera
    global_uniform,   \* State.global_uniform
    uploaded,         \* contents of the global uniform GPU buffer
    input,            \* main's Input
    frame_number,     \* main's frame_number
    accumulated_time, \* main's accumulated_time
    timeline,         \* main's timeline
    blending_factor,  \* main's _blending_factor, as <<numerator, denominator>>
    control_flow,     \* winit's ControlFlow
    event,            \* the event the closure handled last
    calls,            \* GPU / window calls made while handling it, in order
    updates,          \* arguments of the State::update calls made while handling it
    frame             \* the render pass render_mesh recorded while handling it, if any

vars == <<pc, accessor, format, computed_stride, index_format, scene, window_size,
          node_data, primitive_data, surface_config, surface, depth_texture,
          camera, global_uniform, uploaded, input, frame_number, accumulated_time, timeline,
          blending_factor, control_flow, event, calls, updates, frame>>

----------------------------------------------------------------------------
(* gltf::accessor::DataType and Dimensions *)

DataType == {"I8", "U8", "I16", "U16", "U32", "F32"}

Dimensions == {"Scalar", "Vec2", "Vec3", "Vec4", "Mat2", "Mat3", "Mat4"}

(* wgpu::VertexFormat: component family, bits per component, components *)
VertexFormat(family, bits, count) == [family |-> family, bits |-> bits, count |-> count]

Snorm8x2 == VertexFormat("Snorm", 8, 2)
Unorm8x2 == VertexFormat("Unorm", 8, 2)
Snorm8x4 == VertexFormat("Snorm", 8, 4)
Unorm8x4 == VertexFormat("Unorm", 8, 4)
Sint8x2 == VertexFormat("Sint", 8, 2)
Uint8x2 == VertexFormat("Uint", 8, 2)
Sint8x4 == VertexFormat("Sint", 8, 4)
Uint8x4 == VertexFormat("Uint", 8, 4)
Snorm16x2 == VertexFormat("Snorm", 16, 2)
Unorm16x2 == VertexFormat("Unorm", 16, 2)
Snorm16x4 == VertexFormat("Snorm", 16, 4)
Unorm16x4 == VertexFormat("Unorm", 16, 4)
Sint16x2 == VertexFormat("Sint", 16, 2)
Uint16x2 == VertexFormat("Uint", 16, 2)
Sint16x4 == VertexFormat("Sint", 16, 4)
Uint16x4 == VertexFormat("Uint", 16, 4)
Float32 == VertexFormat("Float", 32, 1)
Float32x2 == VertexFormat("Float", 32, 2)
Float32x3 == VertexFormat("Float", 32, 3)
Float32x4 == VertexFormat("Float", 32, 4)
Uint32 == VertexFormat("Uint", 32, 1)
Uint32x2 == VertexFormat("Uint", 32, 2)
Uint32x3 == VertexFormat("Uint", 32, 3)
Uint32x4 == VertexFormat("Uint", 32, 4)

(* panic!("Unsupported vertex format!") *)
UnsupportedVertexFormat == VertexFormat("panic", 0, 0)

(* no call made yet *)
NoFormat == VertexFormat("none", 0, 0)

(* no call made yet *)
NoIndexFormat == "none"

(* panic!("Unsupported index format!") *)
UnsupportedIndexFormat == "panic"

(* component_type_to_index_format taking 8-bit indices as 16-bit ones *)
component_type_to_index_format_u8(ty) ==
    CASE ty \in {"U8", "U16"} -> "Uint16"
      [] ty = "U32" -> "Uint32"
      [] OTHER -> UnsupportedIndexFormat

component_type_to_index_format(ty) ==
    CASE ty = "U16" -> "Uint16"
      [] ty = "U32" -> "Uint32"
      [] OTHER -> UnsupportedIndexFormat

size_of_component_type(ty) ==
    CASE ty = "I8" -> 1
      [] ty = "U8" -> 1
      [] ty = "I16" -> 2
      [] ty = "U16" -> 2
      [] ty = "U32" -> 4
      [] ty = "F32" -> 4

(* align_of_component_type counting the components of a matrix: 4, 9, 16 *)
align_of_component_type_packed(dims) ==
    CASE dims = "Scalar" -> 1
      [] dims = "Vec2" -> 2
      [] dims = "Vec3" -> 3
      [] dims = "Vec4" -> 4
      [] dims = "Mat2" -> 4
      [] dims = "Mat3" -> 9
      [] dims = "Mat4" -> 16

align_of_component_type(dims) ==
    CASE dims = "Scalar" -> 1
      [] dims = "Vec2" -> 2
      [] dims = "Vec3" -> 3
      [] dims = "Vec4" -> 4
      [] dims = "Mat2" -> 4
      [] dims = "Mat3" -> 16
      [] dims = "Mat4" -> 16

stride_of_component_type(acc) ==
    size_of_component_type(acc.data_type) * align_of_component_type(acc.dimensions)

(* The match of accessor_type_to_format, arm by arm; an earlier arm wins. *)
accessor_type_to_format(acc) ==
    LET normalized == acc.normalized
        dims == acc.dimensions
        ty == acc.data_type
    IN  CASE normalized /\ dims = "Vec2" /\ ty = "I8" -> Snorm8x2
          [] normalized /\ dims = "Vec2" /\ ty = "U8" -> Unorm8x2
          [] normalized /\ dims = "Vec4" /\ ty = "I8" -> Snorm8x4
          [] normalized /\ dims = "Vec4" /\ ty = "U8" -> Unorm8x4
          [] ~normalized /\ dims = "Vec2" /\ ty = "I8" -> Sint8x2
          [] ~normalized /\ dims = "Vec2" /\ ty = "U8" -> Uint8x2
          [] ~normalized /\ dims = "Vec4" /\ ty = "I8" -> Sint8x4
          [] ~normalized /\ dims = "Vec4" /\ ty = "U8" -> Sint8x4
          [] normalized /\ dims = "Vec2" /\ ty = "I16" -> Snorm16x2
          [] normalized /\ dims = "Vec2" /\ ty = "U16" -> Unorm16x2
          [] normalized /\ dims = "Vec4" /\ ty = "I16" -> Snorm16x4
          [] normalized /\ dims = "Vec4" /\ ty = "U16" -> Unorm16x4
          [] ~normalized /\ dims = "Vec2" /\ ty = "I16" -> Sint16x2
          [] ~normalized /\ dims = "Vec2" /\ ty = "U16" -> Uint16x2
          [] ~normalized /\ dims = "Vec4" /\ ty = "I16" -> Sint16x4
          [] ~normalized /\ dims = "Vec4" /\ ty = "U16" -> Uint16x4
          [] dims = "Scalar" /\ ty = "F32" -> Float32
          [] dims = "Vec2" /\ ty = "F32" -> Float32x2
          [] dims = "Vec3" /\ ty = "F32" -> Float32x3
          [] dims = "Vec4" /\ ty = "F32" -> Float32x4
          [] dims = "Scalar" /\ ty = "U32" -> Uint32
          [] dims = "Vec2" /\ ty = "U32" -> Uint32x2
          [] dims = "Vec3" /\ ty = "U32" -> Uint32x3
          [] dims = "Vec4" /\ ty = "U32" -> Uint32x4
          [] OTHER -> UnsupportedVertexFormat

(* gltf::mesh::Mode -> wgpu::PrimitiveTopology; LineLoop is todo!() *)
mesh_mode_to_topology(mode) ==
    CASE mode = "Triangles" -> "TriangleList"
      [] mode \in {"TriangleStrip", "TriangleFan"} -> "TriangleStrip"
      [] mode = "Lines" -> "LineList"
      [] mode = "LineStrip" -> "LineStrip"
      [] mode = "Points" -> "PointList"
      [] mode = "LineLoop" -> "panic"

----------------------------------------------------------------------------
(* The imported document.  Indices are 0-based as in the gltf crate; the    *)
(* sequences holding nodes, meshes and primitives are 1-based.              *)

(* gltf::accessor::Dimensions::multiplicity, used by Accessor::size *)
multiplicity(dims) ==
    CASE dims = "Scalar" -> 1
      [] dims = "Vec2" -> 2
      [] dims = "Vec3" -> 3
      [] dims = "Vec4" -> 4
      [] dims = "Mat2" -> 4
      [] dims = "Mat3" -> 9
      [] dims = "Mat4" -> 16

(* gltf::accessor::DataType::size *)
data_type_size(ty) ==
    CASE ty \in {"I8", "U8"} -> 1
      [] ty \in {"I16", "U16"} -> 2
      [] ty \in {"U32", "F32"} -> 4

(* gltf::Accessor::size: bytes of one element *)
accessor_size(acc) == data_type_size(acc.data_type) * multiplicity(acc.dimensions)

(* Outcome of a fallible step: "ok", "err" (a Result::Err passed up by ?)   *)
(* or "panic".                                                              *)
Slice(status, start, len) == [status |-> status, start |-> start, len |-> len]

(* GltfScene::data_of_accessor: the byte range of the accessor inside its  *)
(* buffer; a range that leaves the buffer or the view panics (slice index).*)
data_of_accessor(sc, acc) ==
    IF ~acc.view.present THEN Slice("err", 0, 0)
    ELSE LET buffer_view == acc.view
             buffer_len == sc.buffers[buffer_view.buffer + 1]
         IN  IF buffer_view.offset + buffer_view.length > buffer_len
             THEN Slice("panic", 0, 0)
             ELSE IF acc.offset + acc.count * accessor_size(acc) > buffer_view.length
                  THEN Slice("panic", 0, 0)
                  ELSE Slice("ok", buffer_view.offset + acc.offset,
                             acc.count * accessor_size(acc))

(* ShaderLocation::new: Some(0) for Positions, Some(1) for Normals, else None (-1) *)
ShaderLocation(semantic) ==
    CASE semantic = "Positions" -> 0
      [] semantic = "Normals" -> 1
      [] OTHER -> -1

(* State of the attribute loop of one primitive *)
AttrLoop(status, layouts, attributes, buffers, draw_count) ==
    [status |-> status, vertex_buffer_layouts |-> layouts,
     vertex_attributes |-> attributes, primitive_buffers |-> buffers,
     draw_count |-> draw_count]

(* `for (semantic, accessor) in primitive.attributes()`, from the i-th on: *)
(* the vectors and draw_count so far, and where they end up                *)
RECURSIVE attribute_loop(_, _, _, _, _, _, _)
attribute_loop(sc, layouts, attributes, buffers, draw_count, attrs, i) ==
    IF i > Len(attrs) THEN AttrLoop("ok", layouts, attributes, buffers, draw_count)
    ELSE LET acc == attrs[i].accessor
             shader_location == ShaderLocation(attrs[i].semantic)
             array_stride == IF acc.view.stride # 0 THEN acc.view.stride
                             ELSE stride_of_component_type(acc)
             fmt == accessor_type_to_format(acc)
             buffer == data_of_accessor(sc, acc)
         IN  IF ~acc.view.present
             THEN attribute_loop(sc, layouts, attributes, buffers, draw_count, attrs, i + 1)
             ELSE IF shader_location = -1
             THEN attribute_loop(sc, layouts, attributes, buffers, draw_count, attrs, i + 1)
             ELSE IF fmt = UnsupportedVertexFormat
             THEN AttrLoop("panic", layouts, attributes, buffers, draw_count)
             ELSE IF buffer.status # "ok"
             THEN AttrLoop(buffer.status, layouts, attributes, buffers, draw_count)
             ELSE attribute_loop(sc,
                      Append(layouts, [array_stride |-> array_stride]),
                      Append(attributes,
                             [format |-> fmt, offset |-> acc.offset,
                              shader_location |-> shader_location]),
                      Append(buffers, [len |-> buffer.len]),
                      acc.count,
                      attrs, i + 1)

(* DrawMode *)
Normal(draw_count) ==
    [kind |-> "Normal", draw_count |-> draw_count,
     buffer |-> [len |-> 0], offset |-> 0, ty |-> "none"]

Indexed(buffer, offset, ty, draw_count) ==
    [kind |-> "Indexed", draw_count |-> draw_count,
     buffer |-> buffer, offset |-> offset, ty |-> ty]

(* `let draw_mode = match primitive.indices()`; status says how the match ended *)
draw_mode(sc, primitive, draw_count) ==
    IF ~primitive.indices.present
    THEN [status |-> "ok", mode |-> Normal(draw_count)]
    ELSE LET idx == primitive.indices.accessor
             buffer == data_of_accessor(sc, idx)
             ty == component_type_to_index_format(idx.data_type)
         IN  IF buffer.status # "ok"
             THEN [status |-> buffer.status, mode |-> Normal(0)]
             ELSE IF ty = UnsupportedIndexFormat
                  THEN [status |-> "panic", mode |-> Normal(0)]
                  ELSE [status |-> "ok",
                        mode |-> Indexed([len |-> buffer.len], idx.offset, ty, idx.count)]

(* Body of `for primitive in mesh.primitives()`: the GpuPrimitive, or how it failed *)
GpuPrimitive(sc, primitive) ==
    LET st == attribute_loop(sc, <<>>, <<>>, <<>>, 0, primitive.attributes, 1)
        topology == mesh_mode_to_topology(primitive.mode)
        dm == draw_mode(sc, primitive, st.draw_count)
        status == IF st.status # "ok" THEN st.status
                  ELSE IF topology = "panic" THEN "panic"
                  ELSE dm.status
    IN  [status |-> status,
         pipeline |-> [layouts |-> st.vertex_buffer_layouts,
                       attributes |-> st.vertex_attributes,
                       topology |-> topology],
         buffers |-> st.primitive_buffers,
         draw_mode |-> dm.mode]

EmptyMap == [k \in {} |-> k]

(* HashMap::insert *)
insert(map, key, value) == (key :> value) @@ map

(* `for node in scene.document.nodes().filter(|n| n.mesh().is_some())` *)
RECURSIVE node_loop(_, _, _)
node_loop(sc, table, i) ==
    IF i > Len(sc.nodes) THEN table
    ELSE IF sc.nodes[i].has_mesh
         THEN node_loop(sc, insert(table, i - 1, [node_buffer |-> i - 1]), i + 1)
         ELSE node_loop(sc, table, i + 1)

(* primitive_loop inserting under the primitive's index alone: (0, primitive) *)
RECURSIVE primitive_loop_flat_key(_, _, _, _)
primitive_loop_flat_key(sc, table, m, p) ==
    IF m > Len(sc.meshes) THEN [status |-> "ok", table |-> table]
    ELSE IF p > Len(sc.meshes[m]) THEN primitive_loop_flat_key(sc, table, m + 1, 1)
    ELSE LET gpu_primitive == GpuPrimitive(sc, sc.meshes[m][p])
         IN  IF gpu_primitive.status # "ok"
             THEN [status |-> gpu_primitive.status, table |-> EmptyMap]
             ELSE primitive_loop_flat_key(sc,
                      insert(table, <<0, p - 1>>,
                             [pipeline |-> gpu_primitive.pipeline,
                              buffers |-> gpu_primitive.buffers,
                              draw_mode |-> gpu_primitive.draw_mode]),
                      m, p + 1)

(* primitive_loop leaving out the primitives that have no Position attribute *)
RECURSIVE primitive_loop_positions_only(_, _, _, _)
primitive_loop_positions_only(sc, table, m, p) ==
    IF m > Len(sc.meshes) THEN [status |-> "ok", table |-> table]
    ELSE IF p > Len(sc.meshes[m]) THEN primitive_loop_positions_only(sc, table, m + 1, 1)
    ELSE LET gpu_primitive == GpuPrimitive(sc, sc.meshes[m][p])
         IN  IF gpu_primitive.status # "ok"
             THEN [status |-> gpu_primitive.status, table |-> EmptyMap]
             ELSE IF \A i \in 1..Len(sc.meshes[m][p].attributes) :
                         sc.meshes[m][p].attributes[i].semantic # "Positions"
             THEN primitive_loop_positions_only(sc, table, m, p + 1)
             ELSE primitive_loop_positions_only(sc,
                      insert(table, <<m - 1, p - 1>>,
                             [pipeline |-> gpu_primitive.pipeline,
                              buffers |-> gpu_primitive.buffers,
                              draw_mode |-> gpu_primitive.draw_mode]),
                      m, p + 1)

(* `for mesh in scene.document.meshes() { for primitive in mesh.primitives()`: *)
(* the first failing primitive ends State::new                                *)
RECURSIVE primitive_loop(_, _, _, _)
primitive_loop(sc, table, m, p) ==
    IF m > Len(sc.meshes) THEN [status |-> "ok", table |-> table]
    ELSE IF p > Len(sc.meshes[m]) THEN primitive_loop(sc, table, m + 1, 1)
    ELSE LET gpu_primitive == GpuPrimitive(sc, sc.meshes[m][p])
         IN  IF gpu_primitive.status # "ok"
             THEN [status |-> gpu_primitive.status, table |-> EmptyMap]
             ELSE primitive_loop(sc,
                      insert(table, <<m - 1, p - 1>>,
                             [pipeline |-> gpu_primitive.pipeline,
                              buffers |-> gpu_primitive.buffers,
                              draw_mode |-> gpu_primitive.draw_mode]),
                      m, p + 1)

Extent(width, height) == [width |-> width, height |-> height]

(* create_depth_framebuffer: a depth image of the configuration's extent *)
create_depth_framebuffer(config) == Extent(config.width, config.height)

(* camera::Camera::new: the aspect as the fraction <<width, height>>.  The *)
(* orbit (zoom, yaw, pitch) lives in the camera module; the calls made on  *)
(* it are recorded in `calls`.                                             *)
CameraNew(width, height) == [aspect |-> <<width, height>>]

(* Uniform::default(), taken to hold the surface resolution of startup *)
UniformDefault(width, height) ==
    [frame |-> 0, time |-> 0, resolution |-> <<width, height>>]

(* Input::new(): every flag false *)
InputNew ==
    [up_pressed |-> FALSE, down_pressed |-> FALSE, right_pressed |-> FALSE,
     left_pressed |-> FALSE, shift_pressed |-> FALSE, enter_pressed |-> FALSE,
     space_pressed |-> FALSE, left_mouse_pressed |-> FALSE]

(* The event handed to the closure *)
Event(type, width, height, error, key, state) ==
    [type |-> type, width |-> width, height |-> height, error |-> error,
     key |-> key, state |-> state]

NoEvent == Event("none", 0, 0, "none", "none", "none")

(* No render pass was begun *)
NoFrame ==
    [begun |-> FALSE, color |-> Extent(0, 0), depth |-> Extent(0, 0),
     resolution |-> <<0, 0>>, draws |-> {}]

----------------------------------------------------------------------------
(* Bounds of the model *)

\* largest element count of an accessor in the generated scenes
MaxCount == 2
\* most primitives per mesh and most nodes in the generated scenes
MaxPrims == 2
MaxNodes == 2
\* largest window width; the heights are those of Heights
MaxDim == 2
\* time quanta in one fixed step
StepUnits == 2
\* quanta by which a stall may exceed MAX_FRAME_TIME
MaxStall == 1
\* frame_number is not driven past this
MaxFrames == 7
\* nor past this while every generated document is rendered
MaxRenderFrames == 1

(* Constants of main.rs, in quanta: a second is UPDATES_PER_SECOND * StepUnits *)
UPDATES_PER_SECOND == 60

FIXED_TIME_STEP == (UPDATES_PER_SECOND * StepUnits) \div UPDATES_PER_SECOND

\* 0.1 s
MAX_FRAME_TIME == (UPDATES_PER_SECOND * StepUnits) \div 10

----------------------------------------------------------------------------
(* Documents the importer can hand over *)

View(buffer, offset, length, stride) ==
    [present |-> TRUE, buffer |-> buffer, offset |-> offset, length |-> length,
     stride |-> stride]

(* accessor.view() == None *)
NoView == [present |-> FALSE, buffer |-> 0, offset |-> 0, length |-> 0, stride |-> 0]

Accessor(ty, dims, normalized, count, offset, view) ==
    [data_type |-> ty, dimensions |-> dims, normalized |-> normalized,
     count |-> count, offset |-> offset, view |-> view]

(* A view that holds exactly the accessor's bytes; stride 0 is "none declared" *)
TightView(offset, count, size, stride) == View(0, 0, offset + count * size, stride)

Attribute(semantic, acc) == [semantic |-> semantic, accessor |-> acc]

NoIndices == [present |-> FALSE, accessor |-> Accessor("U16", "Scalar", FALSE, 0, 0, NoView)]

Indices(acc) == [present |-> TRUE, accessor |-> acc]

Primitive(attributes, indices, mode) ==
    [attributes |-> attributes, indices |-> indices, mode |-> mode]

Node(mesh) == [has_mesh |-> mesh >= 0, mesh |-> mesh]

Scene(nodes, meshes, buffers) == [nodes |-> nodes, meshes |-> meshes, buffers |-> buffers]

SeqUpTo(S, n) == UNION {[1..k -> S] : k \in 0..n}

PoolBufferLength == 16 * MaxCount + 4

PositionAccessors ==
    {Accessor("F32", "Vec3", FALSE, c, 0, TightView(0, c, 12, st)) :
        c \in 1..MaxCount, st \in {0, 12}}
    \cup {Accessor("F32", "Vec3", FALSE, 1, 0, NoView),
          Accessor("U8", "Vec3", FALSE, 1, 0, TightView(0, 1, 3, 0)),
          Accessor("F32", "Vec3", FALSE, 1, 0, View(0, 0, 4, 0))}

NormalAccessors ==
    {Accessor("F32", "Vec3", FALSE, c, 0, TightView(0, c, 12, 0)) : c \in 1..MaxCount}
    \cup {Accessor("F32", "Vec3", FALSE, 1, 0, NoView)}

TexCoordAccessors == {Accessor("F32", "Vec2", FALSE, 1, 0, TightView(0, 1, 8, 0))}

IndexAccessors ==
    {Accessor(ty, "Scalar", FALSE, k, o, TightView(o, k, data_type_size(ty), 0)) :
        ty \in DataType, k \in 1..MaxCount, o \in {0, 4}}
    \cup {Accessor("U16", "Scalar", FALSE, 1, 0, NoView)}

PoolAttributes ==
    {Attribute("Positions", a) : a \in PositionAccessors}
    \cup {Attribute("Normals", a) : a \in NormalAccessors}
    \cup {Attribute("TexCoords", a) : a \in TexCoordAccessors}

(* primitive.attributes(): a map, so no semantic twice; any iteration order *)
AttributeLists ==
    {l \in SeqUpTo(PoolAttributes, 2) :
        \A i, j \in 1..Len(l) : i # j => l[i].semantic # l[j].semantic}

PoolPrimitives ==
    {Primitive(l, i, mode) :
        l \in AttributeLists,
        i \in {NoIndices} \cup {Indices(a) : a \in IndexAccessors},
        mode \in {"Triangles", "LineLoop"}}

(* one node, one mesh, one primitive of any shape *)
SingleScenes ==
    {Scene(<<Node(0)>>, <<<<prim>>>>, <<PoolBufferLength>>) : prim \in PoolPrimitives}

PositionOnly ==
    Primitive(<<Attribute("Positions",
                          Accessor("F32", "Vec3", FALSE, 1, 0, TightView(0, 1, 12, 0)))>>,
              NoIndices, "Triangles")

NormalOnly ==
    Primitive(<<Attribute("Normals",
                          Accessor("F32", "Vec3", FALSE, 1, 0, TightView(0, 1, 12, 0)))>>,
              NoIndices, "Triangles")

\* how many meshes a generated scene has
MeshCounts == {0, 1, 2}

(* a mesh has at least one primitive, each with or without a Position *)
PoolMeshes == SeqUpTo({PositionOnly, NormalOnly}, MaxPrims) \ {<<>>}

(* several meshes and nodes; a node has no mesh (-1) or one of the meshes *)
MultiScenes ==
    UNION {{Scene(nodes, meshes, <<PoolBufferLength>>) :
               meshes \in [1..k -> PoolMeshes],
               nodes \in SeqUpTo({Node(m) : m \in -1..(k - 1)}, MaxNodes)} :
           k \in MeshCounts}

Scenes == SingleScenes \cup MultiScenes

(* a cube: 24 positions and normals, 36 16-bit indices, one node *)
FixtureScene ==
    Scene(<<Node(-1), Node(0)>>,
          <<<<Primitive(<<Attribute("Positions",
                              Accessor("F32", "Vec3", FALSE, 24, 0, View(0, 0, 288, 12))),
                          Attribute("Normals",
                              Accessor("F32", "Vec3", FALSE, 24, 0, View(0, 288, 288, 12)))>>,
                        Indices(Accessor("U16", "Scalar", FALSE, 36, 0, View(0, 576, 72, 0))),
                        "Triangles")>>>>,
          <<648>>)

(* a document State::new rejects: a line loop *)
LineLoopScene ==
    Scene(<<Node(0)>>, <<<<Primitive(<<>>, NoIndices, "LineLoop")>>>>, <<0>>)

LoopScenes == {FixtureScene, LineLoopScene}

Widths == 0..MaxDim

Heights == {0, 1}

(* window.inner_size() of a window that can be drawn to *)
WindowSizes == {<<w, h>> : w \in Widths \ {0}, h \in Heights \ {0}}

TranslatorInputs ==
    {Accessor(ty, dims, n, 1, 0, NoView) :
        ty \in DataType, dims \in Dimensions, n \in BOOLEAN}

NoAccessor == Accessor("none", "none", FALSE, 0, 0, NoView)

EmptyScene == Scene(<<>>, <<>>, <<>>)

----------------------------------------------------------------------------
(* Start states.  Until State::new has returned there is no State: its     *)
(* fields hold placeholders.                                               *)

NoState ==
    /\ node_data = EmptyMap
    /\ primitive_data = EmptyMap
    /\ surface_config = Extent(0, 0)
    /\ surface = Extent(0, 0)
    /\ depth_texture = Extent(0, 0)
    /\ camera = CameraNew(0, 0)
    /\ global_uniform = UniformDefault(0, 0)
    /\ uploaded = UniformDefault(0, 0)
    /\ input = InputNew
    /\ frame_number = 0
    /\ accumulated_time = 0
    /\ timeline = 0
    /\ blending_factor = <<0, FIXED_TIME_STEP>>
    /\ control_flow = "Poll"
    /\ event = NoEvent
    /\ calls = <<>>
    /\ updates = <<>>
    /\ frame = NoFrame

(* the viewer, about to run main *)
Init ==
    /\ pc = "new"
    /\ scene \in LoopScenes
    /\ window_size \in WindowSizes
    /\ accessor = NoAccessor
    /\ format = NoFormat
    /\ computed_stride = 0
    /\ index_format = NoIndexFormat
    /\ NoState

(* the compiler alone, over every generated document *)
InitCompile ==
    /\ pc = "new"
    /\ scene \in Scenes
    /\ window_size = <<1, 1>>
    /\ accessor = NoAccessor
    /\ format = NoFormat
    /\ computed_stride = 0
    /\ index_format = NoIndexFormat
    /\ NoState

(* the format translator alone, over every accessor type *)
InitTranslate ==
    /\ pc = "translate"
    /\ accessor \in TranslatorInputs
    /\ format = NoFormat
    /\ computed_stride = 0
    /\ index_format = NoIndexFormat
    /\ scene = EmptyScene
    /\ window_size = <<1, 1>>
    /\ NoState

----------------------------------------------------------------------------
(* Actions *)

loop_vars == <<frame_number, accumulated_time, timeline, blending_factor>>

state_vars == <<node_data, primitive_data, surface_config, surface, depth_texture,
                camera, global_uniform, uploaded>>

(* the translator called on one accessor: its vertex format, its stride and *)
(* the index format of its component type                                   *)
Translate ==
    /\ pc = "translate"
    /\ pc' = "translated"
    /\ format' = accessor_type_to_format(accessor)
    /\ computed_stride' = stride_of_component_type(accessor)
    /\ index_format' = component_type_to_index_format(accessor.data_type)
    /\ UNCHANGED <<accessor, scene, window_size, state_vars, input, loop_vars,
                   control_flow, event, calls, updates, frame>>

(* main up to event_loop.run: State::new(&window) and the loop's locals *)
StateNew ==
    /\ pc = "new"
    /\ LET width == window_size[1]
           height == window_size[2]
           config == Extent(width, height)
           compiled == primitive_loop(scene, EmptyMap, 1, 1)
       IN  IF compiled.status = "ok"
           THEN /\ pc' = "running"
                /\ surface_config' = config
                /\ surface' = config
                /\ depth_texture' = create_depth_framebuffer(config)
                /\ camera' = CameraNew(width, height)
                /\ node_data' = node_loop(scene, EmptyMap, 1)
                /\ primitive_data' = compiled.table
                /\ global_uniform' = UniformDefault(width, height)
                /\ uploaded' = UniformDefault(width, height)
                /\ calls' = <<"configure", "create_depth_framebuffer">>
           ELSE /\ pc' = "failed"
                /\ calls' = <<>>
                /\ UNCHANGED state_vars
    /\ input' = InputNew
    /\ frame_number' = 0
    /\ accumulated_time' = 0
    /\ timeline' = 0
    /\ blending_factor' = <<0, FIXED_TIME_STEP>>
    /\ control_flow' = "Poll"
    /\ event' = NoEvent
    /\ updates' = <<>>
    /\ frame' = NoFrame
    /\ UNCHANGED <<accessor, format, computed_stride, index_format, scene, window_size>>

(* the closure is entered: the loop runs and has not been told to exit *)
Dispatch == pc = "running" /\ control_flow = "Poll"

(* what every handler leaves alone *)
Fixed ==
    UNCHANGED <<pc, accessor, format, computed_stride, index_format, scene, window_size,
                node_data, primitive_data>>

(* Event::MainEventsCleared *)
MainEventsCleared ==
    /\ Dispatch
    /\ event' = Event("MainEventsCleared", 0, 0, "none", "none", "none")
    /\ calls' = <<"request_redraw">>
    /\ updates' = <<>>
    /\ frame' = NoFrame
    /\ Fixed
    /\ UNCHANGED <<surface_config, surface, depth_texture, camera, global_uniform,
                   uploaded, input, loop_vars, control_flow>>

(* State::resize creating the depth target before it stores the new size *)
resize_depth_first(width, height) ==
    /\ depth_texture' = create_depth_framebuffer(surface_config)
    /\ surface_config' = Extent(width, height)
    /\ surface' = surface_config'
    /\ camera' = [camera EXCEPT !.aspect = <<width, height>>]
    /\ calls' = <<"create_depth_framebuffer", "configure", "set_aspect">>

(* State::resize *)
resize(width, height) ==
    /\ surface_config' = Extent(width, height)
    /\ surface' = surface_config'
    /\ depth_texture' = create_depth_framebuffer(surface_config')
    /\ camera' = [camera EXCEPT !.aspect = <<width, height>>]
    /\ calls' = <<"configure", "create_depth_framebuffer", "set_aspect">>

(* the resize arm guarded by `if width != 0` alone *)
Resized_width_only(type, width, height) ==
    /\ Dispatch
    /\ event' = Event(type, width, height, "none", "none", "none")
    /\ IF width # 0
       THEN resize(width, height)
       ELSE /\ calls' = <<>>
            /\ UNCHANGED <<surface_config, surface, depth_texture, camera>>
    /\ updates' = <<>>
    /\ frame' = NoFrame
    /\ Fixed
    /\ UNCHANGED <<global_uniform, uploaded, input, loop_vars, control_flow>>

(* WindowEvent::Resized | WindowEvent::ScaleFactorChanged *)
Resized(type, width, height) ==
    /\ Dispatch
    /\ event' = Event(type, width, height, "none", "none", "none")
    /\ IF width # 0 /\ height # 0
       THEN resize(width, height)
       ELSE /\ calls' = <<>>
            /\ UNCHANGED <<surface_config, surface, depth_texture, camera>>
    /\ updates' = <<>>
    /\ frame' = NoFrame
    /\ Fixed
    /\ UNCHANGED <<global_uniform, uploaded, input, loop_vars, control_flow>>

(* State::update: the uniform it fills in and uploads *)
update(config, time, frame_no) ==
    [frame |-> frame_no, time |-> time, resolution |-> <<config.width, config.height>>]

(* update_loop with `frame_number += 1` ahead of the call of State::update *)
RECURSIVE update_loop_count_first(_, _, _, _, _, _)
update_loop_count_first(acc, frame_no, uniform, done, time, config) ==
    IF acc >= FIXED_TIME_STEP
    THEN update_loop_count_first(acc - FIXED_TIME_STEP,
                                 frame_no + 1,
                                 update(config, time, frame_no + 1),
                                 Append(done, [accumulated_time |-> time,
                                               frame_number |-> frame_no + 1]),
                                 time, config)
    ELSE [accumulated_time |-> acc, frame_number |-> frame_no,
          global_uniform |-> uniform, updates |-> done]

(* update_loop with the loop condition `accumulated_time > FIXED_TIME_STEP` *)
RECURSIVE update_loop_strict(_, _, _, _, _, _)
update_loop_strict(acc, frame_no, uniform, done, time, config) ==
    IF acc > FIXED_TIME_STEP
    THEN update_loop_strict(acc - FIXED_TIME_STEP,
                            frame_no + 1,
                            update(config, time, frame_no),
                            Append(done, [accumulated_time |-> time,
                                          frame_number |-> frame_no]),
                            time, config)
    ELSE [accumulated_time |-> acc, frame_number |-> frame_no,
          global_uniform |-> uniform, updates |-> done]

(* `while accumulated_time >= FIXED_TIME_STEP { ... }`: the loop's variables *)
(* on entry, the uniform and the update calls made so far; timeline and the *)
(* surface configuration do not change in the loop                          *)
RECURSIVE update_loop(_, _, _, _, _, _)
update_loop(acc, frame_no, uniform, done, time, config) ==
    IF acc >= FIXED_TIME_STEP
    THEN update_loop(acc - FIXED_TIME_STEP,
                     frame_no + 1,
                     update(config, time, frame_no),
                     Append(done, [accumulated_time |-> time, frame_number |-> frame_no]),
                     time, config)
    ELSE [accumulated_time |-> acc, frame_number |-> frame_no,
          global_uniform |-> uniform, updates |-> done]

(* the draws of State::render_mesh: one per node of node_data and primitive *)
(* of that node's mesh; a key primitive_data lacks panics                   *)
DrawKeys(sc, nodes) ==
    UNION {{<<n, sc.nodes[n + 1].mesh, p - 1>> :
               p \in 1..Len(sc.meshes[sc.nodes[n + 1].mesh + 1])} : n \in DOMAIN nodes}

(* State::render_mesh after a successful acquisition *)
render_mesh(sc, nodes, primitives, target, depth, ubo) ==
    [begun |-> TRUE, color |-> target, depth |-> depth, resolution |-> ubo.resolution,
     draws |-> {[node |-> k[1], mesh |-> k[2], primitive |-> k[3],
                 draw_mode |-> primitives[<<k[2], k[3]>>].draw_mode] :
                    k \in DrawKeys(sc, nodes)}]

SurfaceResults == {"Ok", "Lost", "Outdated", "Timeout", "OutOfMemory"}

(* the error match with every error but Lost and Outdated fatal *)
on_surface_error_rest_fatal(err) ==
    CASE err \in {"Lost", "Outdated"} ->
           /\ surface' = surface_config
           /\ calls' = <<"get_current_texture", "configure", "request_redraw">>
           /\ UNCHANGED control_flow
      [] OTHER ->
           /\ control_flow' = "Exit"
           /\ calls' = <<"get_current_texture">>
           /\ UNCHANGED surface

(* `match err` of the closure, after render_mesh returned Err(err) *)
on_surface_error(err) ==
    CASE err \in {"Lost", "Outdated"} ->
           /\ surface' = surface_config
           /\ calls' = <<"get_current_texture", "configure", "request_redraw">>
           /\ UNCHANGED control_flow
      [] err = "OutOfMemory" ->
           /\ control_flow' = "Exit"
           /\ calls' = <<"get_current_texture">>
           /\ UNCHANGED surface
      [] OTHER ->
           /\ calls' = <<"get_current_texture">>
           /\ UNCHANGED <<surface, control_flow>>

(* Event::RedrawRequested: one tick of the fixed-timestep loop, then a frame *)
RedrawRequested(since_previous, acquired) ==
    /\ Dispatch
    /\ LET elapsed == IF since_previous > MAX_FRAME_TIME THEN MAX_FRAME_TIME
                      ELSE since_previous
           tick == update_loop(accumulated_time + elapsed, frame_number, global_uniform,
                               <<>>, timeline + elapsed, surface_config)
       IN  /\ tick.frame_number <= MaxFrames
           /\ timeline' = timeline + elapsed
           /\ accumulated_time' = tick.accumulated_time
           /\ frame_number' = tick.frame_number
           /\ global_uniform' = tick.global_uniform
           /\ uploaded' = IF tick.updates = <<>> THEN uploaded ELSE tick.global_uniform
           /\ updates' = tick.updates
           /\ blending_factor' = <<tick.accumulated_time, FIXED_TIME_STEP>>
    /\ event' = Event("RedrawRequested", 0, 0, acquired, "none", "none")
    /\ IF acquired = "Ok"
       THEN IF \A k \in DrawKeys(scene, node_data) : <<k[2], k[3]>> \in DOMAIN primitive_data
            THEN /\ frame' = render_mesh(scene, node_data, primitive_data, surface,
                                         depth_texture, uploaded')
                 /\ calls' = <<"get_current_texture", "begin_render_pass", "submit", "present">>
                 /\ UNCHANGED <<pc, surface, control_flow>>
            ELSE /\ pc' = "failed"
                 /\ frame' = NoFrame
                 /\ calls' = <<"get_current_texture", "begin_render_pass">>
                 /\ UNCHANGED <<surface, control_flow>>
       ELSE /\ frame' = NoFrame
            /\ pc' = pc
            /\ on_surface_error(acquired)
    /\ UNCHANGED <<accessor, format, computed_stride, index_format, scene, window_size, node_data,
                   primitive_data, surface_config, depth_texture, camera, input>>

(* what the input handlers leave alone *)
NoRender ==
    /\ updates' = <<>>
    /\ frame' = NoFrame
    /\ Fixed
    /\ UNCHANGED <<surface_config, surface, depth_texture, global_uniform, uploaded,
                   loop_vars>>

Scrolls == {-1, 1}

MouseDeltas == {<<1, 1>>, <<-1, -1>>}

(* DeviceEvent::MouseWheel: state.camera.add_zoom(scroll_amount * zoom_speed) *)
MouseWheel(scroll) ==
    /\ Dispatch
    /\ event' = Event("MouseWheel", 0, 0, "none", "none", "none")
    /\ calls' = <<"add_zoom">>
    /\ NoRender
    /\ UNCHANGED <<camera, input, control_flow>>

(* DeviceEvent::MouseMotion: add_yaw and add_pitch while the left button is held *)
MouseMotion(delta) ==
    /\ Dispatch
    /\ event' = Event("MouseMotion", 0, 0, "none", "none", "none")
    /\ calls' = IF input.left_mouse_pressed THEN <<"add_yaw", "add_pitch">> ELSE <<>>
    /\ NoRender
    /\ UNCHANGED <<camera, input, control_flow>>

(* any other DeviceEvent *)
DeviceOther ==
    /\ Dispatch
    /\ event' = Event("DeviceEvent", 0, 0, "none", "none", "none")
    /\ calls' = <<>>
    /\ NoRender
    /\ UNCHANGED <<camera, input, control_flow>>

(* WindowEvent::CloseRequested *)
CloseRequested ==
    /\ Dispatch
    /\ event' = Event("CloseRequested", 0, 0, "none", "none", "none")
    /\ control_flow' = "Exit"
    /\ calls' = <<>>
    /\ NoRender
    /\ UNCHANGED <<camera, input>>

(* Input::update on a KeyboardInput with Some(keycode) *)
key_update(in, keycode, pressed) ==
    CASE keycode = "Up" -> [in EXCEPT !.up_pressed = pressed]
      [] keycode = "Down" -> [in EXCEPT !.down_pressed = pressed]
      [] keycode = "Left" -> [in EXCEPT !.left_pressed = pressed]
      [] keycode = "Right" -> [in EXCEPT !.right_pressed = pressed]
      [] keycode \in {"RShift", "LShift"} -> [in EXCEPT !.shift_pressed = pressed]
      [] keycode = "Return" -> [in EXCEPT !.enter_pressed = pressed]
      [] keycode = "Space" -> [in EXCEPT !.space_pressed = pressed]
      [] OTHER -> in

\* "None" is a KeyboardInput whose virtual_keycode is None
Keys == {"Escape", "A", "None"}

ElementState == {"Pressed", "Released"}

(* WindowEvent::KeyboardInput: Escape leaves the loop, any other key goes to input.update *)
KeyboardInput(keycode, state) ==
    /\ Dispatch
    /\ event' = Event("KeyboardInput", 0, 0, "none", keycode, state)
    /\ IF keycode = "Escape"
       THEN /\ control_flow' = "Exit"
            /\ UNCHANGED input
       ELSE /\ input' = IF keycode = "None" THEN input
                        ELSE key_update(input, keycode, state = "Pressed")
            /\ UNCHANGED control_flow
    /\ calls' = <<>>
    /\ NoRender
    /\ UNCHANGED camera

(* MouseInput with any button taken for the left one *)
MouseInput_any_button(button, state) ==
    /\ Dispatch
    /\ event' = Event("MouseInput", 0, 0, "none", button, state)
    /\ input' = [input EXCEPT !.left_mouse_pressed = (state = "Pressed")]
    /\ calls' = <<>>
    /\ NoRender
    /\ UNCHANGED <<camera, control_flow>>

(* WindowEvent::MouseInput, through input.update *)
MouseInput(button, state) ==
    /\ Dispatch
    /\ event' = Event("MouseInput", 0, 0, "none", button, state)
    /\ input' = IF button = "Left"
                THEN [input EXCEPT !.left_mouse_pressed = (state = "Pressed")]
                ELSE input
    /\ calls' = <<>>
    /\ NoRender
    /\ UNCHANGED <<camera, control_flow>>

(* any other WindowEvent, through input.update (mouse_position is not modelled) *)
WindowOther ==
    /\ Dispatch
    /\ event' = Event("WindowEvent", 0, 0, "none", "none", "none")
    /\ calls' = <<>>
    /\ NoRender
    /\ UNCHANGED <<camera, input, control_flow>>

(* any other Event: the `_ => {}` arm *)
OtherEvent ==
    /\ Dispatch
    /\ event' = Event("Other", 0, 0, "none", "none", "none")
    /\ calls' = <<>>
    /\ NoRender
    /\ UNCHANGED <<camera, input, control_flow>>

(* ControlFlow::Exit is sticky: winit hands over LoopDestroyed and stops *)
LoopDestroyed ==
    /\ pc = "running"
    /\ control_flow = "Exit"
    /\ pc' = "exited"
    /\ UNCHANGED <<accessor, format, computed_stride, index_format, scene, window_size, state_vars,
                   input, loop_vars, control_flow, event, calls, updates, frame>>

(* wall-clock time between two redraws: every value up to a stall *)
Elapsed == 0..(MAX_FRAME_TIME + MaxStall)

(* the same, thinned out: no time, less than a step, a step, a stall *)
TickInputs == {0, 1, FIXED_TIME_STEP, MAX_FRAME_TIME + MaxStall}

Next ==
    \/ StateNew
    \/ MainEventsCleared
    \/ \E type \in {"Resized", "ScaleFactorChanged"}, width \in Widths, height \in Heights :
          Resized(type, width, height)
    \/ \E since_previous \in TickInputs, acquired \in SurfaceResults :
          RedrawRequested(since_previous, acquired)
    \/ \E scroll \in Scrolls : MouseWheel(scroll)
    \/ \E delta \in MouseDeltas : MouseMotion(delta)
    \/ DeviceOther
    \/ CloseRequested
    \/ \E keycode \in Keys, state \in ElementState : KeyboardInput(keycode, state)
    \/ \E button \in {"Left", "Right"}, state \in ElementState : MouseInput(button, state)
    \/ WindowOther
    \/ OtherEvent
    \/ LoopDestroyed

Spec == Init /\ [][Next]_vars

(* the fixed-timestep clock alone, over every elapsed time *)
NextClock ==
    \/ StateNew
    \/ \E since_previous \in Elapsed, acquired \in SurfaceResults :
          RedrawRequested(since_previous, acquired)

SpecClock == Init /\ [][NextClock]_vars

NextCompile == StateNew

SpecCompile == InitCompile /\ [][NextCompile]_vars

(* compile every generated document, then resize, update and render *)
NextRender ==
    \/ StateNew
    \/ \E width \in {MaxDim}, height \in {1} : Resized("Resized", width, height)
    \/ \E since_previous \in {FIXED_TIME_STEP}, acquired \in {"Ok"} :
          /\ frame_number < MaxRenderFrames
          /\ RedrawRequested(since_previous, acquired)

SpecRender == InitCompile /\ [][NextRender]_vars

NextTranslate == Translate

SpecTranslate == InitTranslate /\ [][NextTranslate]_vars

----------------------------------------------------------------------------
(* The clock as the build computes it.  elapsed, accumulated_time and        *)
(* timeline are f64; the values the loop meets lie below 2^-3 s and are      *)
(* multiples of 2^-60 s, so an f64 is held as <<high, low>> = high * 2^29 +  *)
(* low, counted in units of 2^-60 s.  An f64 has 53 significant bits: every  *)
(* result below 2^53 units is exact, one in [2^53, 2^54) is rounded to a     *)
(* multiple of 2 units, and so on, ties to even.                             *)

\* 2^29: the weight of the high part
F64Limb == 536870912

F64Zero == <<0, 0>>

(* carry or borrow between the two parts after adding or subtracting them *)
f64_carry(high, low) ==
    IF low >= F64Limb THEN <<high + 1, low - F64Limb>>
    ELSE IF low < 0 THEN <<high - 1, low + F64Limb>>
    ELSE <<high, low>>

(* a >= b *)
f64_ge(a, b) == a[1] > b[1] \/ (a[1] = b[1] /\ a[2] >= b[2])

(* a > b *)
f64_gt(a, b) == a[1] > b[1] \/ (a[1] = b[1] /\ a[2] > b[2])

(* the spacing of f64 values at x, in units: 2^(e - 52) for x in [2^e, 2^(e+1)) *)
f64_ulp(x) ==
    IF x[1] < 2^24 THEN 1
    ELSE IF x[1] < 2^25 THEN 2
    ELSE IF x[1] < 2^26 THEN 4
    ELSE IF x[1] < 2^27 THEN 8
    ELSE 16

(* round to nearest f64, ties to even *)
f64_round(x) ==
    LET ulp == f64_ulp(x)
        rest == x[2] % ulp
        down == <<x[1], x[2] - rest>>
        up == f64_carry(x[1], x[2] - rest + ulp)
    IN  IF 2 * rest < ulp THEN down
        ELSE IF 2 * rest > ulp THEN up
        ELSE IF (x[2] \div ulp) % 2 = 0 THEN down
        ELSE up

(* a + b and a - b (for a >= b) of f64 *)
f64_add(a, b) == f64_round(f64_carry(a[1] + b[1], a[2] + b[2]))

f64_sub(a, b) == f64_round(f64_carry(a[1] - b[1], a[2] - b[2]))

\* 1. / 60 as f64: 0x1.1111111111111p-6
FIXED_TIME_STEP_f64 == <<35791394, 71582788>>

\* 0.1 as f64: 0x1.999999999999ap-4
MAX_FRAME_TIME_f64 == <<214748364, 429496736>>

(* Duration::as_secs_f64 of a duration of whole milliseconds: 0.005 is     *)
(* 0x1.47ae147ae147bp-8, 0.045 is 0x1.70a3d70a3d70ap-5 and 0.2 is          *)
(* 0x1.999999999999ap-3                                                    *)
as_secs_f64(millis) ==
    CASE millis = 5 -> <<10737418, 128849019>>
      [] millis = 45 -> <<96636764, 85899344>>
      [] millis = 200 -> <<429496729, 322122560>>

(* time between two redraws, in milliseconds: a short frame, a long one, a stall *)
ElapsedMillis == {5, 45, 200}

\* frame_number is not driven past this by the f64 clock
MaxFramesF64 == 9

(* the while loop of the tick on f64 values *)
RECURSIVE update_loop_f64(_, _, _, _, _, _)
update_loop_f64(acc, frame_no, uniform, done, time, config) ==
    IF f64_ge(acc, FIXED_TIME_STEP_f64)
    THEN update_loop_f64(f64_sub(acc, FIXED_TIME_STEP_f64),
                         frame_no + 1,
                         update(config, time, frame_no),
                         Append(done, [accumulated_time |-> time, frame_number |-> frame_no]),
                         time, config)
    ELSE [accumulated_time |-> acc, frame_number |-> frame_no,
          global_uniform |-> uniform, updates |-> done]

(* Event::RedrawRequested with the tick computed in f64 *)
RedrawRequested_f64(millis, acquired) ==
    /\ Dispatch
    /\ LET since_previous == as_secs_f64(millis)
           elapsed == IF f64_gt(since_previous, MAX_FRAME_TIME_f64) THEN MAX_FRAME_TIME_f64
                      ELSE since_previous
           tick == update_loop_f64(f64_add(accumulated_time, elapsed), frame_number,
                                   global_uniform, <<>>, f64_add(timeline, elapsed),
                                   surface_config)
       IN  /\ tick.frame_number <= MaxFramesF64
           /\ timeline' = f64_add(timeline, elapsed)
           /\ accumulated_time' = tick.accumulated_time
           /\ frame_number' = tick.frame_number
           /\ global_uniform' = tick.global_uniform
           /\ uploaded' = IF tick.updates = <<>> THEN uploaded ELSE tick.global_uniform
           /\ updates' = tick.updates
           /\ blending_factor' = <<tick.accumulated_time, FIXED_TIME_STEP_f64>>
    /\ event' = Event("RedrawRequested", 0, 0, acquired, "none", "none")
    /\ IF acquired = "Ok"
       THEN /\ frame' = render_mesh(scene, node_data, primitive_data, surface,
                                    depth_texture, uploaded')
            /\ calls' = <<"get_current_texture", "begin_render_pass", "submit", "present">>
            /\ UNCHANGED <<pc, surface, control_flow>>
       ELSE /\ frame' = NoFrame
            /\ pc' = pc
            /\ on_surface_error(acquired)
    /\ UNCHANGED <<accessor, format, computed_stride, index_format, scene, window_size,
                   node_data, primitive_data, surface_config, depth_texture, camera, input>>

(* the loop entered after State::new compiled the cube, its f64 locals 0. *)
InitF64 ==
    /\ pc = "running"
    /\ scene = FixtureScene
    /\ window_size = <<1, 1>>
    /\ accessor = NoAccessor
    /\ format = NoFormat
    /\ computed_stride = 0
    /\ index_format = NoIndexFormat
    /\ node_data = node_loop(FixtureScene, EmptyMap, 1)
    /\ primitive_data = primitive_loop(FixtureScene, EmptyMap, 1, 1).table
    /\ surface_config = Extent(1, 1)
    /\ surface = Extent(1, 1)
    /\ depth_texture = create_depth_framebuffer(Extent(1, 1))
    /\ camera = CameraNew(1, 1)
    /\ global_uniform = UniformDefault(1, 1)
    /\ uploaded = UniformDefault(1, 1)
    /\ input = InputNew
    /\ frame_number = 0
    /\ accumulated_time = F64Zero
    /\ timeline = F64Zero
    /\ blending_factor = <<F64Zero, FIXED_TIME_STEP_f64>>
    /\ control_flow = "Poll"
    /\ event = NoEvent
    /\ calls = <<"configure", "create_depth_framebuffer">>
    /\ updates = <<>>
    /\ frame = NoFrame

NextClockF64 ==
    \E millis \in ElapsedMillis, acquired \in {"Ok", "Lost"} :
        RedrawRequested_f64(millis, acquired)

SpecClockF64 == InitF64 /\ [][NextClockF64]_vars

----------------------------------------------------------------------------
(* Properties *)

Signed(ty) == ty \in {"I8", "I16"}

(* the format the table of the specification documents for an accessor *)
DocumentedFormat(acc) ==
    LET ty == acc.data_type
        dims == acc.dimensions
        components == multiplicity(dims)
        family == IF acc.normalized
                  THEN (IF Signed(ty) THEN "Snorm" ELSE "Unorm")
                  ELSE (IF Signed(ty) THEN "Sint" ELSE "Uint")
    IN  IF ty \in {"I8", "U8", "I16", "U16"} /\ dims \in {"Vec2", "Vec4"}
        THEN VertexFormat(family, 8 * data_type_size(ty), components)
        ELSE IF ty \in {"F32", "U32"} /\ dims \in {"Scalar", "Vec2", "Vec3", "Vec4"}
        THEN VertexFormat(IF ty = "F32" THEN "Float" ELSE "Uint", 32, components)
        ELSE UnsupportedVertexFormat

\* C1: accessor_type_to_format returns, for every (normalized, dimensions,
\* component type), the format of the documented table - matching bit width,
\* component count and Snorm/Unorm/Sint/Uint/Float family - and fails for
\* every combination outside the table.
C1_DocumentedVertexFormat ==
    pc = "translated" => format = DocumentedFormat(accessor)

C3_Resize ==
    [][\A type \in {"Resized", "ScaleFactorChanged"}, width \in Widths, height \in Heights :
          Resized(type, width, height) =>
              IF width > 0 /\ height > 0
              THEN /\ surface_config' = Extent(width, height)
                   /\ surface' = Extent(width, height)
                   /\ depth_texture' = Extent(width, height)
                   /\ "create_depth_framebuffer" \in {calls'[i] : i \in 1..Len(calls')}
              ELSE UNCHANGED <<state_vars, loop_vars, input, control_flow>>]_vars

\* C3 witness: an accepted resize to an extent other than the startup one
C3_Witness ==
    /\ event.type = "ScaleFactorChanged"
    /\ event.width > 0 /\ event.height > 0
    /\ <<event.width, event.height>> # window_size
    /\ surface_config = Extent(event.width, event.height)
    /\ depth_texture = Extent(event.width, event.height)

\* C4: in every reachable state of the running viewer the depth target has
\* the extent of the configured surface, and every render pass begun by
\* render_mesh has a colour and a depth attachment of equal extent.
C4_DepthMatchesSurface ==
    pc \in {"running", "exited"} =>
        /\ depth_texture = surface
        /\ surface = surface_config
        /\ frame.begun => frame.color = frame.depth

\* C4 witness: a frame rendered after the window was resized
C4_Witness ==
    /\ frame.begun
    /\ <<frame.color.width, frame.color.height>> # window_size
    /\ frame.depth = frame.color

\* C5: when surface acquisition reports Lost or Outdated the handler
\* reconfigures the surface and recreates the depth target, does not leave
\* the loop, and asks for another redraw.
C5_LostReconfiguresBoth ==
    (event.type = "RedrawRequested" /\ event.error \in {"Lost", "Outdated"}) =>
        LET made == {calls[i] : i \in 1..Len(calls)}
        IN  /\ "configure" \in made
            /\ "create_depth_framebuffer" \in made
            /\ "request_redraw" \in made
            /\ control_flow = "Poll"

\* C5, the part the handler does: reconfigure the surface, stay in the loop,
\* ask for another redraw
C5_LostReconfiguresSurface ==
    (event.type = "RedrawRequested" /\ event.error \in {"Lost", "Outdated"}) =>
        LET made == {calls[i] : i \in 1..Len(calls)}
        IN  /\ "configure" \in made
            /\ "create_depth_framebuffer" \notin made
            /\ "request_redraw" \in made
            /\ control_flow = "Poll"
            /\ surface = surface_config

(* the primitive of the document a key of primitive_data stands for *)
PrimitiveOf(sc, key) == sc.meshes[key[1] + 1][key[2] + 1]

(* the Position accessors of a primitive that have a buffer view *)
PositionsOf(primitive) ==
    {primitive.attributes[i].accessor : i \in
        {j \in 1..Len(primitive.attributes) :
            /\ primitive.attributes[j].semantic = "Positions"
            /\ primitive.attributes[j].accessor.view.present}}

\* C6: a primitive with an index accessor of count K compiles to
\* DrawMode::Indexed with draw_count K; a primitive without one compiles to
\* DrawMode::Normal with the element count of its Position accessor, whatever
\* other attributes it has and in whatever order they are iterated.
C6_DrawModeSelection ==
    pc = "running" =>
        \A key \in DOMAIN primitive_data :
            LET primitive == PrimitiveOf(scene, key)
                mode == primitive_data[key].draw_mode
            IN  IF primitive.indices.present
                THEN /\ mode.kind = "Indexed"
                     /\ mode.draw_count = primitive.indices.accessor.count
                ELSE /\ mode.kind = "Normal"
                     /\ \A position \in PositionsOf(primitive) :
                            mode.draw_count = position.count

\* C6, the part that holds: the variant follows the index accessor alone, and
\* an indexed primitive draws the index accessor's count
C6_IndexedDrawCount ==
    pc = "running" =>
        \A key \in DOMAIN primitive_data :
            LET primitive == PrimitiveOf(scene, key)
                mode == primitive_data[key].draw_mode
            IN  IF primitive.indices.present
                THEN /\ mode.kind = "Indexed"
                     /\ mode.draw_count = primitive.indices.accessor.count
                ELSE mode.kind = "Normal"

(* all <<mesh index, primitive index>> pairs of the document *)
PrimitiveKeys(sc) ==
    UNION {{<<m - 1, p - 1>> : p \in 1..Len(sc.meshes[m])} : m \in 1..Len(sc.meshes)}

(* the pairs whose primitive has a Position attribute *)
PositionKeys(sc) ==
    {key \in PrimitiveKeys(sc) :
        \E i \in 1..Len(PrimitiveOf(sc, key).attributes) :
            PrimitiveOf(sc, key).attributes[i].semantic = "Positions"}

(* the indices of the nodes that have a mesh *)
MeshNodes(sc) == {n - 1 : n \in {i \in 1..Len(sc.nodes) : sc.nodes[i].has_mesh}}

ExitEvent(e) ==
    \/ e.type = "RedrawRequested" /\ e.error = "OutOfMemory"
    \/ e.type = "CloseRequested"
    \/ e.type = "KeyboardInput" /\ e.key = "Escape"

\* C8: handling an event sets control flow to Exit exactly when the event is
\* a render acquisition failure of OutOfMemory, a close request or an Escape
\* key event; Lost, Outdated, Timeout, resizes, mouse events and other keys
\* leave the loop running; the OutOfMemory handler reconfigures nothing; and
\* the loop stops only after such an event.
C8_ExitPaths ==
    [][/\ Dispatch =>
            /\ (control_flow' = "Exit") <=> ExitEvent(event')
            /\ ~ExitEvent(event') => pc' = "running"
            /\ (event'.type = "RedrawRequested" /\ event'.error = "OutOfMemory") =>
                   /\ "configure" \notin {calls'[i] : i \in 1..Len(calls')}
                   /\ surface' = surface
                   /\ depth_texture' = depth_texture
       /\ pc' = "exited" => (control_flow = "Exit" /\ ExitEvent(event))]_vars

\* C8 witness: the loop has stopped after an OutOfMemory failure
C8_Witness ==
    /\ pc = "exited"
    /\ event.type = "RedrawRequested"
    /\ event.error = "OutOfMemory"
    /\ calls = <<"get_current_texture">>

\* C9: at every render the resolution the global uniform holds, and the one
\* uploaded to the GPU, is the surface configuration's (width, height).
C9_ResolutionCurrentAtRender ==
    frame.begun =>
        /\ global_uniform.resolution = <<surface_config.width, surface_config.height>>
        /\ frame.resolution = <<surface_config.width, surface_config.height>>

\* C9, what holds instead: the resolution is refreshed by State::update, so
\* it is current after every tick that ran at least one update step
C9_ResolutionCurrentAfterUpdate ==
    (event.type = "RedrawRequested" /\ updates # <<>>) =>
        /\ global_uniform.resolution = <<surface_config.width, surface_config.height>>
        /\ uploaded = global_uniform

\* C10: the k-th call of State::update overall (k = 0, 1, ...) gets
\* frame_number k: the loop starts with frame_number 0, the i-th call of a
\* tick gets the tick's starting frame_number plus i, frame_number advances
\* by the number of calls, GlobalUniform.frame is the argument of the last
\* call, and no handler that calls no update changes either.
C10_FrameIndex ==
    [][/\ pc = "new" => (frame_number' = 0 /\ global_uniform'.frame = 0)
       /\ Dispatch =>
            /\ \A i \in 1..Len(updates') :
                   updates'[i].frame_number = frame_number + (i - 1)
            /\ frame_number' = frame_number + Len(updates')
            /\ global_uniform'.frame =
                   IF updates' = <<>> THEN global_uniform.frame
                   ELSE updates'[Len(updates')].frame_number
            /\ event'.type # "RedrawRequested" => updates' = <<>>]_vars

\* C10 witness: a second tick, whose six calls got the frames 1 to 6
C10_Witness ==
    /\ event.type = "RedrawRequested"
    /\ Len(updates) = 6
    /\ updates[1].frame_number = 1
    /\ updates[6].frame_number = 6
    /\ frame_number = 7
    /\ global_uniform.frame = 6

(* the documented size of a component type, in bytes *)
sizeOfComponent(ty) ==
    IF ty \in {"I8", "U8"} THEN 1 ELSE IF ty \in {"I16", "U16"} THEN 2 ELSE 4

(* the documented alignment factor of a dimensionality *)
alignOfDimension(dims) ==
    IF dims = "Scalar" THEN 1
    ELSE IF dims = "Vec2" THEN 2
    ELSE IF dims = "Vec3" THEN 3
    ELSE IF dims \in {"Vec4", "Mat2"} THEN 4
    ELSE 16

KeptAttributes(primitive) ==
    SelectSeq(primitive.attributes,
              LAMBDA a : a.accessor.view.present /\ ShaderLocation(a.semantic) # -1)

\* C11, the use in compilation: the array stride of a vertex buffer is the
\* stride its buffer view declares, and the computed stride only when the
\* view declares none
C11_ComputedStrideFallback ==
    pc = "running" =>
        \A key \in DOMAIN primitive_data :
            LET kept == KeptAttributes(PrimitiveOf(scene, key))
                layouts == primitive_data[key].pipeline.layouts
            IN  /\ Len(layouts) = Len(kept)
                /\ \A i \in 1..Len(kept) :
                       layouts[i].array_stride =
                           IF kept[i].accessor.view.stride # 0
                           THEN kept[i].accessor.view.stride
                           ELSE sizeOfComponent(kept[i].accessor.data_type)
                                    * alignOfDimension(kept[i].accessor.dimensions)

\* C12: an index accessor of type U16 compiles to the 2-byte format Uint16
\* and one of type U32 to the 4-byte format Uint32; a scene with a primitive
\* whose index accessor has any other component type (I8, U8, I16, F32) never
\* yields a compiled State.
C12_IndexFormatOrFailure ==
    /\ pc = "running" =>
           \A key \in DOMAIN primitive_data \cup PrimitiveKeys(scene) :
               LET idx == PrimitiveOf(scene, key).indices
               IN  idx.present =>
                       /\ key \in DOMAIN primitive_data
                       /\ idx.accessor.data_type \in {"U16", "U32"}
                       /\ primitive_data[key].draw_mode.ty =
                              (IF idx.accessor.data_type = "U16" THEN "Uint16" ELSE "Uint32")
    /\ (\E key \in PrimitiveKeys(scene) :
            /\ PrimitiveOf(scene, key).indices.present
            /\ PrimitiveOf(scene, key).indices.accessor.data_type
                   \in {"I8", "U8", "I16", "F32"})
           => pc \in {"new", "failed"}

\* C12 witness: State::new failed on a triangle primitive without attributes
\* whose only flaw is a 16-bit signed index accessor
C12_Witness ==
    /\ pc = "failed"
    /\ Len(scene.meshes) = 1
    /\ Len(scene.meshes[1]) = 1
    /\ scene.meshes[1][1].attributes = <<>>
    /\ scene.meshes[1][1].mode = "Triangles"
    /\ scene.meshes[1][1].indices.present
    /\ scene.meshes[1][1].indices.accessor.view.present
    /\ scene.meshes[1][1].indices.accessor.data_type = "I16"

\* C12, the function alone: Uint16 for U16, Uint32 for U32, a panic otherwise
C12_IndexFormatTable ==
    pc = "translated" =>
        index_format = (IF accessor.data_type = "U16" THEN "Uint16"
                        ELSE IF accessor.data_type = "U32" THEN "Uint32"
                        ELSE UnsupportedIndexFormat)

\* C13: the time that consecutive State::update invocations write to
\* GlobalUniform.time increases by exactly one fixed step S from one
\* invocation to the next, also between invocations of a single tick.
C13_FixedIncrements ==
    [][\A since_previous \in Elapsed, acquired \in SurfaceResults :
          RedrawRequested(since_previous, acquired) =>
              /\ \A i \in 1..(Len(updates') - 1) :
                     updates'[i + 1].accumulated_time =
                         updates'[i].accumulated_time + FIXED_TIME_STEP
              /\ (frame_number > 0 /\ updates' # <<>>) =>
                     updates'[1].accumulated_time = global_uniform.time + FIXED_TIME_STEP]_vars

\* C13, what holds instead: every State::update of a tick is handed the same
\* time, the timeline after the tick's capped elapsed time was added, so the
\* time written grows by the elapsed wall-clock time and not by steps
C13_TickTimeline ==
    [][\A since_previous \in Elapsed, acquired \in SurfaceResults :
          RedrawRequested(since_previous, acquired) =>
              /\ timeline' = timeline + (IF since_previous > MAX_FRAME_TIME
                                         THEN MAX_FRAME_TIME ELSE since_previous)
              /\ \A i \in 1..Len(updates') : updates'[i].accumulated_time = timeline'
              /\ global_uniform'.time =
                     IF updates' = <<>> THEN global_uniform.time ELSE timeline']_vars

\* C14: the elapsed time of a tick is clamped to MAX_FRAME_TIME = 6 *
\* FIXED_TIME_STEP and the accumulator is below one step on entry, so no tick
\* calls State::update more than 6 times however long the stall before it, and
\* the timeline grows by at most MAX_FRAME_TIME per tick.
C14_BoundedCatchUp ==
    [][\A millis \in ElapsedMillis, acquired \in {"Ok", "Lost"} :
          RedrawRequested_f64(millis, acquired) =>
              /\ ~f64_ge(accumulated_time, FIXED_TIME_STEP_f64)
              /\ Len(updates') <= 6
              /\ ~f64_gt(timeline', f64_add(timeline, MAX_FRAME_TIME_f64))]_vars

\* C14, what holds of the f64 clock: the accumulator is below one step on
\* entry and on exit, the timeline grows by at most MAX_FRAME_TIME, and a tick
\* calls State::update at most 7 times
C14_CatchUpSevenF64 ==
    [][\A millis \in ElapsedMillis, acquired \in {"Ok", "Lost"} :
          RedrawRequested_f64(millis, acquired) =>
              /\ ~f64_ge(accumulated_time, FIXED_TIME_STEP_f64)
              /\ ~f64_ge(accumulated_time', FIXED_TIME_STEP_f64)
              /\ Len(updates') <= 7
              /\ ~f64_gt(timeline', f64_add(timeline, MAX_FRAME_TIME_f64))]_vars

\* C14 in exact arithmetic, where MAX_FRAME_TIME is six steps to the quantum:
\* at most 6 calls per tick and at most MAX_FRAME_TIME of timeline
C14_BoundedCatchUpExact ==
    [][\A since_previous \in Elapsed, acquired \in SurfaceResults :
          RedrawRequested(since_previous, acquired) =>
              /\ MAX_FRAME_TIME = 6 * FIXED_TIME_STEP
              /\ accumulated_time < FIXED_TIME_STEP
              /\ Len(updates') <= 6
              /\ timeline' - timeline <= MAX_FRAME_TIME]_vars

(* bytes of one index of a wgpu::IndexFormat *)
IndexSize(ty) == IF ty = "Uint16" THEN 2 ELSE 4

\* C15: every indexed draw render_mesh issues stays inside the index buffer:
\* for an index accessor with byte offset O, count K and index size s, the
\* offset at which the index buffer is bound plus K * s does not exceed the
\* buffer's length K * s, for every O >= 0.
C15_IndexedDrawInBounds ==
    frame.begun =>
        \A draw \in frame.draws :
            draw.draw_mode.kind = "Indexed" =>
                draw.draw_mode.offset + draw.draw_mode.draw_count * IndexSize(draw.draw_mode.ty)
                    <= draw.draw_mode.buffer.len

\* C15, what holds: the index buffer holds exactly the K * s bytes of the
\* accessor and is bound at the accessor's offset O, so the draw stays inside
\* exactly when O = 0
C15_InBoundsIffZeroOffset ==
    frame.begun =>
        \A draw \in frame.draws :
            draw.draw_mode.kind = "Indexed" =>
                LET idx == scene.meshes[draw.mesh + 1][draw.primitive + 1].indices.accessor
                    mode == draw.draw_mode
                IN  /\ mode.buffer.len = idx.count * IndexSize(mode.ty)
                    /\ mode.offset = idx.offset
                    /\ mode.draw_count = idx.count
                    /\ (mode.offset + mode.draw_count * IndexSize(mode.ty) <= mode.buffer.len)
                           <=> idx.offset = 0

(* the draws a frame of a document is to issue: <<node, mesh, primitive>> *)
ExpectedDraws(sc) ==
    UNION {{<<n, sc.nodes[n + 1].mesh, p>> :
               p \in {q \in 0..MaxPrims : <<sc.nodes[n + 1].mesh, q>> \in PrimitiveKeys(sc)}} :
           n \in MeshNodes(sc)}

\* C16: for a compiled scene every key of node_data is the index of a node
\* with a mesh and every (mesh, primitive) pair of such a node's mesh is a key
\* of primitive_data; render_mesh never fails on a lookup and a frame issues
\* exactly one draw per (node with mesh, primitive of its mesh) pair; update,
\* resize and render leave both tables as compilation made them.
C16_RenderLookupsSucceed ==
    [][/\ pc' = "running" =>
            /\ DOMAIN node_data' \subseteq MeshNodes(scene')
            /\ \A n \in DOMAIN node_data' :
                   \A p \in 1..Len(scene'.meshes[scene'.nodes[n + 1].mesh + 1]) :
                       <<scene'.nodes[n + 1].mesh, p - 1>> \in DOMAIN primitive_data'
       /\ Dispatch =>
            /\ pc' # "failed"
            /\ UNCHANGED <<node_data, primitive_data, scene>>
            /\ event'.type = "RedrawRequested" =>
                   /\ frame'.begun
                   /\ {<<draw.node, draw.mesh, draw.primitive>> : draw \in frame'.draws}
                          = ExpectedDraws(scene)
                   /\ Cardinality(frame'.draws) = Cardinality(ExpectedDraws(scene))]_vars

\* C16 witness: a frame rendered after a resize and an update, of two nodes
\* that share a mesh of two primitives: four draws
C16_Witness ==
    /\ frame.begun
    /\ frame_number = 1
    /\ surface_config = Extent(MaxDim, 1)
    /\ Len(scene.nodes) = 2
    /\ scene.nodes[1].has_mesh
    /\ scene.nodes[1].mesh = scene.nodes[2].mesh
    /\ Cardinality(frame.draws) = 4
    /\ Cardinality(DOMAIN node_data) = 2

\* C17: a mouse-motion event adjusts yaw and pitch if and only if the left
\* button is held, that is, the latest left-button MouseInput event so far
\* was a press (the flag starts false, a left-button MouseInput sets it to
\* "pressed" and nothing else changes it); without it mouse motion leaves the
\* camera alone; a mouse-wheel event adjusts zoom whatever the button state.
C17_OrbitWhileLeftHeld ==
    [][/\ pc = "new" => ~input'.left_mouse_pressed
       /\ Dispatch =>
            /\ input'.left_mouse_pressed =
                   IF event'.type = "MouseInput" /\ event'.key = "Left"
                   THEN event'.state = "Pressed"
                   ELSE input.left_mouse_pressed
            /\ event'.type = "MouseMotion" =>
                   /\ input.left_mouse_pressed => calls' = <<"add_yaw", "add_pitch">>
                   /\ ~input.left_mouse_pressed => (calls' = <<>> /\ camera' = camera)
            /\ event'.type = "MouseWheel" => calls' = <<"add_zoom">>
            /\ event'.type \notin {"MouseMotion", "MouseWheel"} =>
                   \A i \in 1..Len(calls') :
                       calls'[i] \notin {"add_yaw", "add_pitch", "add_zoom"}]_vars

\* C17 witness: mouse motion turned the camera while the left button was held
C17_Witness ==
    /\ event.type = "MouseMotion"
    /\ input.left_mouse_pressed
    /\ calls = <<"add_yaw", "add_pitch">>

====
